---- MODULE Spec2Model ----
(***************************************************************************)
(* Ultracube Factoriopedia: the data processor (UltracubeDataProcessor)    *)
(* and the pages that query it: the list page (UltracubeApp) and the item  *)
(* details page (ItemDetailsApp).  The processor is checked on its own     *)
(* under Spec, ItemSpec, RecipeSpec and TechSpec, which differ in the      *)
(* dataset documents they load, behind the list page under PageSpec and    *)
(* behind the details page under DetailSpec.                               *)
(*                                                                         *)
(* JavaScript values:                                                      *)
(*   - a string is a sequence of one-character strings, <<>> being '';     *)
(*   - a missing string field (undefined) is Undef;                        *)
(*   - null/undefined where an object may stand is <<>>, the object o      *)
(*     being <<o>>;                                                        *)
(*   - a Map or a plain object used as a map is a function on its keys.    *)
(***************************************************************************)
EXTENDS Integers, Sequences, FiniteSets, TLC

VARIABLES
    data,              \* this.data: <<>> (null) or <<dataset>>
    recipes,           \* this.recipes
    items,             \* this.items
    craftingEntities,  \* this.craftingEntities
    recipeLookup,      \* this.recipeLookup
    itemLookup,        \* this.itemLookup
    craftingLookup,    \* this.craftingLookup
    iconMapping,       \* this.iconMapping
    loadResult,        \* what the latest loadData() call returned: "none", "true", "false"
    loads,             \* number of loadData() calls made on this processor
    \* the list page (UltracubeApp)
    appPc,             \* "none": no page; where UltracubeApp.loadData stands:
                       \* "fetchData", "fetchIcons" (awaiting), "loaded", "failed"
    currentItems,      \* this.currentItems
    currentQuery,      \* this.currentQuery
    currentTypeFilter, \* this.currentTypeFilter
    currentSort,       \* this.currentSort
    typeOptions,       \* the option values of the type-filter select
    itemCount,         \* the text of the item-count element
    view,              \* "loading", "grid" (hideLoading ran) or "error" (showError ran)
    queryLog,          \* history: the values of appPc under which the page queried the processor
    firstRender,       \* history: <<>> or <<the UI state and cards of the first render after the load>>
    \* the item details page (ItemDetailsApp)
    itemId,            \* this.itemId: <<>> (null) or <<the id parameter of the URL>>
    thisItem,          \* this.item: <<>> or <<item>>
    detailPc,          \* "none": no page; where ItemDetailsApp.loadData stands:
                       \* "fetchData", "fetchIcons" (awaiting the processor),
                       \* "resolved" (the processor returned), "done" (returned),
                       \* "threw" (left by an exception)
    loadingText,       \* the text of the loading element
    loadingDisplay,    \* its style.display: "initial" or "none"
    detailsDisplay,    \* style.display of the details container: "initial", "block", "none"
    header,            \* <<>> or <<what displayItemHeader wrote>>
    sections,          \* the how-to-make, used-in and can-craft sections
    ran                \* history: the steps of loadItemDetails that were entered

dpVars == <<data, recipes, items, craftingEntities, recipeLookup, itemLookup,
            craftingLookup, iconMapping, loadResult, loads>>

appVars == <<appPc, currentItems, currentQuery, currentTypeFilter, currentSort,
             typeOptions, itemCount, view, queryLog, firstRender>>

detailVars == <<itemId, thisItem, detailPc, loadingText, loadingDisplay, detailsDisplay,
                header, sections, ran>>

vars == <<dpVars, appVars, detailVars>>

----------------------------------------------------------------------------
(* Bounds *)

MaxLoads == 2

----------------------------------------------------------------------------
(* JavaScript helpers *)

Undef == <<"undefined">>

\* truthiness of a string-or-undefined value: undefined and '' are falsy
Truthy(s) == s # Undef /\ s # <<>>

EmptyMap == [k \in {} |-> <<>>]

MapSet(m, k, v) == [x \in (DOMAIN m) \cup {k} |-> IF x = k THEN v ELSE m[x]]

MapGet(m, k) == IF k \in DOMAIN m THEN <<m[k]>> ELSE <<>>

----------------------------------------------------------------------------
(* The dataset document: a JSON object keyed by record type.  A bucket is  *)
(* missing ("absent"), an array of records ("array"), or a wrapper object  *)
(* holding the records under _array_items ("wrapped").                     *)

ItemTypes == <<"item", "fluid", "science", "armor", "module", "capsule",
               "repair-tool", "item-with-entity-data", "rail-planner">>

EntityTypes == <<"assembling-machine", "furnace", "mining-drill", "lab">>

Keys == {ItemTypes[i] : i \in DOMAIN ItemTypes}
          \cup {EntityTypes[i] : i \in DOMAIN EntityTypes}
          \cup {"recipe", "technology"}

AbsentB == [shape |-> "absent", recs |-> <<>>]
Arr(s) == [shape |-> "array", recs |-> s]
Wrapped(s) == [shape |-> "wrapped", recs |-> s]
\* an object that is neither an array nor a wrapper with _array_items
OtherObj == [shape |-> "other", recs |-> <<>>]

\* the dataset whose buckets are those of o, every other key missing
MkData(o) == [k \in Keys |-> IF k \in DOMAIN o THEN o[k] ELSE AbsentB]

----------------------------------------------------------------------------
(* extractItems / extractCategories *)

extractItems(itemsData) ==
    IF itemsData.shape = "absent" THEN <<>>
    ELSE IF itemsData.shape = "array" THEN itemsData.recs
    ELSE IF itemsData.shape = "wrapped" THEN itemsData.recs
    ELSE <<>>

extractCategories(categoriesData) ==
    IF categoriesData.shape = "absent" THEN <<>>
    ELSE IF categoriesData.shape = "array" THEN categoriesData.recs
    ELSE IF categoriesData.shape = "wrapped" THEN categoriesData.recs
    ELSE <<>>

SeqIncludes(s, x) == \E i \in DOMAIN s : s[i] = x

\* Array.prototype.find, hits being the indexes of s whose element passes the
\* callback: the first such element, as <<e>>, or <<>>
FindFirst(s, hits) ==
    IF hits = {} THEN <<>>
    ELSE <<s[CHOOSE i \in hits : \A j \in hits : i <= j]>>

----------------------------------------------------------------------------
(* findCraftingEntity *)

Crafting == <<"c","r","a","f","t","i","n","g">>
Smelting == <<"s","m","e","l","t","i","n","g">>
Chemistry == <<"c","h","e","m","i","s","t","r","y">>
OilProcessing == <<"o","i","l","-","p","r","o","c","e","s","s","i","n","g">>
RocketBuilding == <<"r","o","c","k","e","t","-","b","u","i","l","d","i","n","g">>

categoryMappings ==
    (Crafting :> <<"A","s","s","e","m","b","l","i","n","g"," ","M","a","c","h","i","n","e">>)
    @@ (Smelting :> <<"F","u","r","n","a","c","e">>)
    @@ (Chemistry :> <<"C","h","e","m","i","c","a","l"," ","P","l","a","n","t">>)
    @@ (OilProcessing :> <<"O","i","l"," ","R","e","f","i","n","e","r","y">>)
    @@ (RocketBuilding :> <<"R","o","c","k","e","t"," ","S","i","l","o">>)

Lower == <<"a","b","c","d","e","f","g","h","i","j","k","l","m",
           "n","o","p","q","r","s","t","u","v","w","x","y","z">>
Upper == <<"A","B","C","D","E","F","G","H","I","J","K","L","M",
           "N","O","P","Q","R","S","T","U","V","W","X","Y","Z">>
Digits == {"0","1","2","3","4","5","6","7","8","9"}

IsLower(c) == \E i \in DOMAIN Lower : Lower[i] = c
IsUpper(c) == \E i \in DOMAIN Upper : Upper[i] = c
toUpperCase(c) == IF IsLower(c) THEN Upper[CHOOSE i \in DOMAIN Lower : Lower[i] = c] ELSE c
toLowerCase(c) == IF IsUpper(c) THEN Lower[CHOOSE i \in DOMAIN Upper : Upper[i] = c] ELSE c

\* \w of a JavaScript regular expression
IsWordChar(c) == IsLower(c) \/ IsUpper(c) \/ c \in Digits \/ c = "_"

\* category.replace(/-/g, ' ').replace(/\b\w/g, l => l.toUpperCase())
TitleCase(category) ==
    LET spaced == [i \in DOMAIN category |-> IF category[i] = "-" THEN " " ELSE category[i]]
    IN [i \in DOMAIN spaced |->
            IF IsWordChar(spaced[i]) /\ (i = 1 \/ ~IsWordChar(spaced[i - 1]))
            THEN toUpperCase(spaced[i])
            ELSE spaced[i]]

\* entities is this.craftingEntities at the time of the call
findCraftingEntity(entities, category) ==
    IF ~Truthy(category) THEN <<>>
    ELSE LET entity == FindFirst(entities, {i \in DOMAIN entities :
                                                    SeqIncludes(entities[i].categories, category)})
         IN IF entity # <<>>
            THEN <<[name |-> entity[1].displayName, id |-> entity[1].id, type |-> entity[1].type]>>
            ELSE <<[name |-> IF category \in DOMAIN categoryMappings
                             THEN categoryMappings[category]
                             ELSE TitleCase(category),
                    id |-> category,
                    type |-> "category"]>>

----------------------------------------------------------------------------
(* processData *)

\* the cleaned name is ignored
DisplayNameRaw(rec) == rec.name

DisplayName(rec) == IF Truthy(rec.cleaned_name) THEN rec.cleaned_name ELSE rec.name

\* { ...item, displayName: item.cleaned_name || item.name, id: item.name, type }
MkItem(rec, type) ==
    [name |-> rec.name, cleaned_name |-> rec.cleaned_name,
     displayName |-> DisplayName(rec), id |-> rec.name, type |-> type]

\* typeItems.forEach(item => lookup.set(item.name, item))
RECURSIVE SetAll(_, _, _)
SetAll(lookup, objs, i) ==
    IF i > Len(objs) THEN lookup
    ELSE SetAll(MapSet(lookup, objs[i].name, objs[i]), objs, i + 1)

\* the itemTypes.forEach loop from bucket i on; threw: data[type].map is not
\* a function (the bucket is not an array)
RECURSIVE FlattenItems(_, _, _, _)
FlattenItems(d, i, its, lookup) ==
    IF i > Len(ItemTypes) THEN [items |-> its, itemLookup |-> lookup, threw |-> FALSE]
    ELSE LET bucket == d[ItemTypes[i]]
         IN IF bucket.shape = "absent" THEN FlattenItems(d, i + 1, its, lookup)
            ELSE IF bucket.shape # "array"
            THEN [items |-> its, itemLookup |-> lookup, threw |-> TRUE]
            ELSE LET typeItems == [k \in DOMAIN bucket.recs |->
                                        MkItem(bucket.recs[k], ItemTypes[i])]
                 IN FlattenItems(d, i + 1, its \o typeItems, SetAll(lookup, typeItems, 1))

\* the object a recipe record is mapped to
MkRecipe(rec, entities) ==
    [name |-> rec.name, cleaned_name |-> rec.cleaned_name, category |-> rec.category,
     displayName |-> DisplayName(rec), id |-> rec.name,
     ingredients |-> extractItems(rec.ingredients),
     results |-> extractItems(rec.results),
     craftingEntity |-> findCraftingEntity(entities, rec.category)]

\* the recipe block; entities is this.craftingEntities as it stands when the
\* block runs
ProcessRecipes(d, oldRecipes, lookup, entities) ==
    LET bucket == d["recipe"]
    IN IF bucket.shape = "absent"
       THEN [recipes |-> oldRecipes, recipeLookup |-> lookup, threw |-> FALSE]
       ELSE IF bucket.shape # "array"
       THEN [recipes |-> oldRecipes, recipeLookup |-> lookup, threw |-> TRUE]
       ELSE LET rs == [k \in DOMAIN bucket.recs |-> MkRecipe(bucket.recs[k], entities)]
            IN [recipes |-> rs, recipeLookup |-> SetAll(lookup, rs, 1), threw |-> FALSE]

MkEntity(rec, type) ==
    [name |-> rec.name, cleaned_name |-> rec.cleaned_name,
     displayName |-> DisplayName(rec), id |-> rec.name, type |-> type,
     categories |-> extractCategories(rec.crafting_categories)]

\* the entityTypes.forEach loop from bucket i on
RECURSIVE FlattenEntities(_, _, _, _)
FlattenEntities(d, i, ents, lookup) ==
    IF i > Len(EntityTypes)
    THEN [craftingEntities |-> ents, craftingLookup |-> lookup, threw |-> FALSE]
    ELSE LET bucket == d[EntityTypes[i]]
         IN IF bucket.shape = "absent" THEN FlattenEntities(d, i + 1, ents, lookup)
            ELSE IF bucket.shape # "array"
            THEN [craftingEntities |-> ents, craftingLookup |-> lookup, threw |-> TRUE]
            ELSE LET typeEnts == [k \in DOMAIN bucket.recs |->
                                        MkEntity(bucket.recs[k], EntityTypes[i])]
                 IN FlattenEntities(d, i + 1, ents \o typeEnts, SetAll(lookup, typeEnts, 1))

\* processData() on dataset d: the fields it leaves, and whether it threw.
\* A throw leaves what the statements before it wrote.  The recipe block runs
\* before this.craftingEntities is rebuilt, so it resolves crafting entities
\* against the collection the previous load left.
processData(d) ==
    LET it == FlattenItems(d, 1, <<>>, itemLookup)
        rc == ProcessRecipes(d, recipes, recipeLookup, craftingEntities)
        en == FlattenEntities(d, 1, <<>>, craftingLookup)
    IN IF it.threw
       THEN [items |-> it.items, itemLookup |-> it.itemLookup,
             recipes |-> recipes, recipeLookup |-> recipeLookup,
             craftingEntities |-> craftingEntities, craftingLookup |-> craftingLookup,
             threw |-> TRUE]
       ELSE IF rc.threw
       THEN [items |-> it.items, itemLookup |-> it.itemLookup,
             recipes |-> recipes, recipeLookup |-> recipeLookup,
             craftingEntities |-> craftingEntities, craftingLookup |-> craftingLookup,
             threw |-> TRUE]
       ELSE [items |-> it.items, itemLookup |-> it.itemLookup,
             recipes |-> rc.recipes, recipeLookup |-> rc.recipeLookup,
             craftingEntities |-> en.craftingEntities, craftingLookup |-> en.craftingLookup,
             threw |-> en.threw]

----------------------------------------------------------------------------
(* Queries *)

HasName(list, itemName) == \E i \in DOMAIN list : list[i].name = itemName

\* the ingredients are searched instead of the results
getRecipesThatMakeByIngredient(itemName) ==
    SelectSeq(recipes, LAMBDA recipe : HasName(recipe.ingredients, itemName))

getRecipesThatMake(itemName) ==
    SelectSeq(recipes, LAMBDA recipe : HasName(recipe.results, itemName))

getRecipesThatUse(itemName) ==
    SelectSeq(recipes, LAMBDA recipe : HasName(recipe.ingredients, itemName))

getRecipesCraftableBy(entityName) ==
    LET entity == MapGet(craftingLookup, entityName)
    IN IF entity = <<>> THEN <<>>
       ELSE SelectSeq(recipes, LAMBDA recipe : SeqIncludes(entity[1].categories, recipe.category))

getAllItems == items

getAllRecipes == recipes

getItem(itemName) == MapGet(itemLookup, itemName)

getRecipe(recipeName) == MapGet(recipeLookup, recipeName)

getCraftingEntity(entityName) == MapGet(craftingLookup, entityName)

getItemIcon(itemName) == MapGet(iconMapping, itemName)

\* does the technology have an unlock-recipe effect whose recipe is in the
\* recipe lookup and produces itemName
TechUnlocks(tech, itemName) ==
    IF tech.effects.shape = "absent" THEN FALSE
    ELSE LET effects == extractItems(tech.effects)
         IN \E i \in DOMAIN effects :
                /\ effects[i].type = "unlock-recipe"
                /\ getRecipe(effects[i].recipe) # <<>>
                /\ HasName(getRecipe(effects[i].recipe)[1].results, itemName)

\* threw: this.data is null, or data.technology has no find method;
\* value: <<tech>>, or <<>> for null/undefined
getTechnologyThatUnlocks(itemName) ==
    IF data = <<>> THEN [threw |-> TRUE, value |-> <<>>]
    ELSE LET bucket == data[1]["technology"]
         IN IF bucket.shape = "absent" THEN [threw |-> FALSE, value |-> <<>>]
            ELSE IF bucket.shape # "array" THEN [threw |-> TRUE, value |-> <<>>]
            ELSE [threw |-> FALSE,
                  value |-> FindFirst(bucket.recs, {i \in DOMAIN bucket.recs :
                                                       TechUnlocks(bucket.recs[i], itemName)})]

\* the eight types getItemTypes adds to 'item' when the dataset has the key
BrowsableTypes == {"fluid", "science", "armor", "module", "capsule", "repair-tool",
                   "item-with-entity-data", "rail-planner"}

\* the set behind the sorted array getItemTypes returns, for dataset d
getItemTypes(d) == {"item"} \cup {k \in BrowsableTypes : d[k].shape # "absent"}

ToLower(s) == [i \in DOMAIN s |-> toLowerCase(s[i])]

\* String.prototype.includes
StrIncludes(s, sub) ==
    \E k \in 0..(Len(s) - Len(sub)) : SubSeq(s, k + 1, k + Len(sub)) = sub

\* the names are matched as written, only the query is lower-cased
SearchInCaseSensitive(its, query, typeFilter) ==
    LET byType == IF typeFilter # ""
                  THEN SelectSeq(its, LAMBDA item : item.type = typeFilter)
                  ELSE its
    IN IF Truthy(query)
       THEN SelectSeq(byType, LAMBDA item :
                \/ StrIncludes(item.displayName, ToLower(query))
                \/ StrIncludes(item.name, ToLower(query)))
       ELSE byType

\* searchItems on the item array its; typeFilter is '' or a type
SearchIn(its, query, typeFilter) ==
    LET byType == IF typeFilter # ""
                  THEN SelectSeq(its, LAMBDA item : item.type = typeFilter)
                  ELSE its
    IN IF Truthy(query)
       THEN SelectSeq(byType, LAMBDA item :
                \/ StrIncludes(ToLower(item.displayName), ToLower(query))
                \/ StrIncludes(ToLower(item.name), ToLower(query)))
       ELSE byType

searchItems(query, typeFilter) == SearchIn(items, query, typeFilter)

\* with no type filter and no query searchItems returns this.items itself,
\* not a copy
ReturnsItemsArray(query, typeFilter) == typeFilter = "" /\ ~Truthy(query)

----------------------------------------------------------------------------
(* The list page: UltracubeApp *)

\* collation rank of a character: punctuation, digits, then letters by
\* alphabet position whatever their case
CharRank(c) ==
    IF c = " " THEN 1
    ELSE IF c = "_" THEN 2
    ELSE IF c = "-" THEN 3
    ELSE IF c \in Digits THEN 4
    ELSE IF IsLower(c) THEN 10 + (CHOOSE i \in DOMAIN Lower : Lower[i] = c)
    ELSE IF IsUpper(c) THEN 10 + (CHOOSE i \in DOMAIN Upper : Upper[i] = c)
    ELSE 40

\* the weight compared at a level: the letter at level 1, its case at level 2
Weight(c, level) == IF level = 1 THEN CharRank(c) ELSE IF IsUpper(c) THEN 1 ELSE 0

\* lexicographic comparison of two strings by the weights of a level, from
\* position i on: -1, 0 or 1
RECURSIVE LexCompare(_, _, _, _)
LexCompare(a, b, i, level) ==
    IF i > Len(a) /\ i > Len(b) THEN 0
    ELSE IF i > Len(a) THEN -1
    ELSE IF i > Len(b) THEN 1
    ELSE IF Weight(a[i], level) < Weight(b[i], level) THEN -1
    ELSE IF Weight(a[i], level) > Weight(b[i], level) THEN 1
    ELSE LexCompare(a, b, i + 1, level)

\* a.localeCompare(b): by letters first, lower case before upper case on a
\* tie; 0 only for equal strings
localeCompare(a, b) ==
    IF LexCompare(a, b, 1, 1) # 0 THEN LexCompare(a, b, 1, 1)
    ELSE LexCompare(a, b, 1, 2)

\* the nine type names in localeCompare order
TypeOrder == <<"armor", "capsule", "fluid", "item", "item-with-entity-data",
               "module", "rail-planner", "repair-tool", "science">>

TypeCompare(s, t) ==
    LET rs == CHOOSE i \in DOMAIN TypeOrder : TypeOrder[i] = s
        rt == CHOOSE i \in DOMAIN TypeOrder : TypeOrder[i] = t
    IN IF rs < rt THEN -1 ELSE IF rs > rt THEN 1 ELSE 0

\* the comparator of sortItems
CompareItems(a, b, sort) ==
    IF sort = "name" THEN localeCompare(a.displayName, b.displayName)
    ELSE IF sort = "type"
    THEN IF TypeCompare(a.type, b.type) # 0 THEN TypeCompare(a.type, b.type)
         ELSE localeCompare(a.displayName, b.displayName)
    ELSE 0

\* sorted with x inserted after the elements that compare <= x
RECURSIVE InsertSorted(_, _, _)
InsertSorted(sorted, x, sort) ==
    IF sorted = <<>> THEN <<x>>
    ELSE IF CompareItems(sorted[Len(sorted)], x, sort) <= 0 THEN Append(sorted, x)
    ELSE Append(InsertSorted(SubSeq(sorted, 1, Len(sorted) - 1), x, sort), sorted[Len(sorted)])

\* Array.prototype.sort with the comparator: a stable sort
RECURSIVE sortItems(_, _)
sortItems(arr, sort) ==
    IF arr = <<>> THEN <<>>
    ELSE InsertSorted(sortItems(SubSeq(arr, 1, Len(arr) - 1), sort), arr[Len(arr)], sort)

\* createItemCard: what a card shows and links to
Card(item, icons) ==
    [id |-> item.id, displayName |-> item.displayName, type |-> item.type,
     icon |-> MapGet(icons, item.id)]

\* renderItems: the cards of the grid
Cards(its, icons) == [i \in DOMAIN its |-> Card(its[i], icons)]

\* updateItemCount
ItemCountText(filtered, total, query, typeFilter) ==
    IF Truthy(query) \/ typeFilter # ""
    THEN <<"Showing", filtered, "of", total, "items">>
    ELSE <<total, "items total">>

\* displayItems() with this.items = its and the UI state given: searchItems,
\* sortItems (in place: it sorts this.items when searchItems returned it),
\* renderItems, updateItemCount
displayItems(its, query, typeFilter, sort) ==
    LET sorted == sortItems(SearchIn(its, query, typeFilter), sort)
        after == IF ReturnsItemsArray(query, typeFilter) THEN sorted ELSE its
    IN /\ currentItems' = sorted
       /\ items' = after
       /\ itemCount' = ItemCountText(Len(sorted), Len(after), query, typeFilter)

Queries == {<<>>, <<"x">>, <<"a">>}

Sorts == {"name", "type"}

\* constructor(), up to the first await of loadData()
InitApp ==
    /\ appPc = "fetchData"
    /\ currentItems = <<>>
    /\ currentQuery = <<>>
    /\ currentTypeFilter = ""
    /\ currentSort = "name"
    /\ typeOptions = {""}
    /\ itemCount = <<>>
    /\ view = "loading"
    /\ queryLog = {}
    /\ firstRender = <<>>

\* no page is open: the processor is used on its own
InitNoApp ==
    /\ appPc = "none"
    /\ currentItems = <<>>
    /\ currentQuery = <<>>
    /\ currentTypeFilter = ""
    /\ currentSort = "name"
    /\ typeOptions = {""}
    /\ itemCount = <<>>
    /\ view = "loading"
    /\ queryLog = {}
    /\ firstRender = <<>>

\* the dataset document fails: the processor returns false, showError()
AppDatasetFails ==
    /\ appPc = "fetchData"
    /\ loadResult' = "false"
    /\ appPc' = "failed"
    /\ view' = "error"
    /\ UNCHANGED <<data, recipes, items, craftingEntities, recipeLookup, itemLookup,
                   craftingLookup, iconMapping, loads>>
    /\ UNCHANGED <<currentItems, currentQuery, currentTypeFilter, currentSort,
                   typeOptions, itemCount, queryLog, firstRender>>
    /\ UNCHANGED detailVars

\* the dataset document is parsed and stored; the processor awaits the icons
AppDatasetArrives(ds) ==
    /\ appPc = "fetchData"
    /\ data' = <<ds>>
    /\ appPc' = "fetchIcons"
    /\ UNCHANGED <<recipes, items, craftingEntities, recipeLookup, itemLookup,
                   craftingLookup, iconMapping, loadResult, loads>>
    /\ UNCHANGED <<currentItems, currentQuery, currentTypeFilter, currentSort,
                   typeOptions, itemCount, view, queryLog, firstRender>>
    /\ UNCHANGED detailVars

\* the icon mapping fails: the processor returns false, showError()
AppIconsFail ==
    /\ appPc = "fetchIcons"
    /\ loadResult' = "false"
    /\ appPc' = "failed"
    /\ view' = "error"
    /\ UNCHANGED <<data, recipes, items, craftingEntities, recipeLookup, itemLookup,
                   craftingLookup, iconMapping, loads>>
    /\ UNCHANGED <<currentItems, currentQuery, currentTypeFilter, currentSort,
                   typeOptions, itemCount, queryLog, firstRender>>
    /\ UNCHANGED detailVars

\* the icon mapping is parsed; processData() runs and the processor returns;
\* the page goes on in the same turn: populateFilters, displayItems,
\* hideLoading on true, showError on false
AppIconsArrive(icons) ==
    /\ appPc = "fetchIcons"
    /\ iconMapping' = icons
    /\ LET p == processData(data[1])
       IN /\ itemLookup' = p.itemLookup
          /\ recipes' = p.recipes
          /\ recipeLookup' = p.recipeLookup
          /\ craftingEntities' = p.craftingEntities
          /\ craftingLookup' = p.craftingLookup
          /\ IF p.threw
             THEN /\ loadResult' = "false"
                  /\ items' = p.items
                  /\ appPc' = "failed"
                  /\ view' = "error"
                  /\ UNCHANGED <<currentItems, typeOptions, itemCount, queryLog, firstRender>>
             ELSE /\ loadResult' = "true"
                  /\ typeOptions' = typeOptions \cup getItemTypes(data[1])
                  /\ displayItems(p.items, currentQuery, currentTypeFilter, currentSort)
                  /\ appPc' = "loaded"
                  /\ view' = "grid"
                  /\ queryLog' = queryLog \cup {"loaded"}
                  /\ firstRender' =
                        <<[query |-> currentQuery, typeFilter |-> currentTypeFilter,
                           sort |-> currentSort,
                           cards |-> Cards(sortItems(SearchIn(p.items, currentQuery,
                                                               currentTypeFilter),
                                                      currentSort), icons)]>>
    /\ UNCHANGED <<data, loads, currentQuery, currentTypeFilter, currentSort>>
    /\ UNCHANGED detailVars

\* what the three handlers leave alone
HandlerFrame ==
    /\ queryLog' = queryLog \cup {appPc}
    /\ UNCHANGED <<data, recipes, craftingEntities, recipeLookup, itemLookup,
                   craftingLookup, iconMapping, loadResult, loads>>
    /\ UNCHANGED <<appPc, typeOptions, view, firstRender>>
    /\ UNCHANGED detailVars

\* handleSearch: an input event on the search box
handleSearch(value) ==
    /\ appPc # "none"
    /\ value # currentQuery
    /\ currentQuery' = value
    /\ displayItems(items, value, currentTypeFilter, currentSort)
    /\ HandlerFrame
    /\ UNCHANGED <<currentTypeFilter, currentSort>>

\* handleFilterChange: a change event on the type-filter select
handleFilterChange(value) ==
    /\ appPc # "none"
    /\ value \in typeOptions
    /\ value # currentTypeFilter
    /\ currentTypeFilter' = value
    /\ displayItems(items, currentQuery, value, currentSort)
    /\ HandlerFrame
    /\ UNCHANGED <<currentQuery, currentSort>>

\* handleSortChange: a change event on the sort select
handleSortChange(value) ==
    /\ appPc # "none"
    /\ value # currentSort
    /\ currentSort' = value
    /\ displayItems(items, currentQuery, currentTypeFilter, value)
    /\ HandlerFrame
    /\ UNCHANGED <<currentQuery, currentTypeFilter>>

----------------------------------------------------------------------------
(* The item details page (ItemDetailsApp) *)

\* the three recipe sections as the markup has them
NoSections ==
    [howToMake |-> [display |-> "initial", cards |-> <<>>],
     usedIn |-> [display |-> "initial", cards |-> <<>>],
     canCraft |-> [display |-> "initial", cards |-> <<>>]]

\* no details page is open
InitNoDetail ==
    /\ itemId = <<>>
    /\ thisItem = <<>>
    /\ detailPc = "none"
    /\ loadingText = "initial"
    /\ loadingDisplay = "initial"
    /\ detailsDisplay = "initial"
    /\ header = <<>>
    /\ sections = NoSections
    /\ ran = {}

\* if (!this.itemId): the parameter is missing (null) or empty
NoItemId(id) == id = <<>> \/ id[1] = <<>>

\* constructor(), up to the first await of loadData(); idParam is what
\* getItemIdFromUrl returned.  Without an id loadData shows the error and
\* returns before it calls the processor
InitDetail(idParam) ==
    /\ itemId = idParam
    /\ thisItem = <<>>
    /\ loadingDisplay = "initial"
    /\ header = <<>>
    /\ sections = NoSections
    /\ ran = {}
    /\ IF NoItemId(idParam)
       THEN /\ detailPc = "done"
            /\ loadingText = "No item ID provided"
            /\ detailsDisplay = "none"
       ELSE /\ detailPc = "fetchData"
            /\ loadingText = "initial"
            /\ detailsDisplay = "initial"

showError(message) ==
    /\ loadingText' = message
    /\ detailsDisplay' = "none"
    /\ UNCHANGED loadingDisplay

hideLoading ==
    /\ loadingDisplay' = "none"
    /\ detailsDisplay' = "block"
    /\ UNCHANGED loadingText

\* createIngredientHtml / createResultHtml: the link target, the resolved
\* display name (the raw id when the id is no item) and the icon
StackView(stack) ==
    [link |-> stack.name,
     displayName |-> IF getItem(stack.name) # <<>>
                     THEN getItem(stack.name)[1].displayName
                     ELSE stack.name,
     icon |-> getItemIcon(stack.name)]

\* the badge of the crafting entity: its name and icon (no name of the
\* documents loaded here holds the words Cube or Handcraft, which the badge
\* drops)
createCraftingEntityHtml(entity) ==
    [name |-> entity.name, icon |-> getItemIcon(entity.id)]

createRecipeElement(recipe, showEntity) ==
    [displayName |-> recipe.displayName,
     entity |-> IF showEntity /\ recipe.craftingEntity # <<>>
                THEN <<createCraftingEntityHtml(recipe.craftingEntity[1])>>
                ELSE <<>>,
     ingredients |-> [i \in DOMAIN recipe.ingredients |-> StackView(recipe.ingredients[i])],
     results |-> [i \in DOMAIN recipe.results |-> StackView(recipe.results[i])]]

\* a section is hidden when it has no recipe, and else shown with one card
\* per recipe
RecipeSection(old, recs, showEntity) ==
    IF Len(recs) = 0
    THEN [old EXCEPT !.display = "none"]
    ELSE [display |-> "block",
          cards |-> [i \in DOMAIN recs |-> createRecipeElement(recs[i], showEntity)]]

displayRecipesThatMake(old) == RecipeSection(old, getRecipesThatMake(itemId[1]), TRUE)

displayRecipesThatUse(old) == RecipeSection(old, getRecipesThatUse(itemId[1]), TRUE)

displayCraftingCapabilities(old) ==
    IF getCraftingEntity(itemId[1]) = <<>>
    THEN [old EXCEPT !.display = "none"]
    ELSE RecipeSection(old, getRecipesCraftableBy(itemId[1]), FALSE)

\* displayItemHeader: name, type and icon, then the unlocking technology;
\* tech is <<>> while getTechnologyThatUnlocks has not returned
displayItemHeader(it, tech) ==
    [name |-> it.displayName,
     type |-> it.type,
     icon |-> getItemIcon(itemId[1]),
     unlockTechName |-> IF tech = <<>> THEN <<>>
                        ELSE IF tech[1].value = <<>> THEN <<>>
                        ELSE IF Truthy(tech[1].value[1].cleaned_name)
                             THEN <<tech[1].value[1].cleaned_name>>
                             ELSE <<tech[1].value[1].name>>,
     unlockTechDisplay |-> IF tech = <<>> THEN "initial"
                           ELSE IF tech[1].value = <<>> THEN "none" ELSE "block"]

ItemMissingNever(it) == FALSE

\* if (!this.item)
ItemMissing(it) == it = <<>>

\* loadItemDetails: runs in one turn.  Reading this.item.displayName of a
\* missing item, or a throwing getTechnologyThatUnlocks, leaves it by an
\* exception out of displayItemHeader
loadItemDetails ==
    LET it == getItem(itemId[1])
        tech == getTechnologyThatUnlocks(itemId[1])
    IN /\ thisItem' = it
       /\ IF ItemMissing(it)
          THEN /\ showError("Item not found")
               /\ detailPc' = "done"
               /\ UNCHANGED <<header, sections, ran>>
          ELSE IF it = <<>>
          THEN /\ ran' = ran \cup {"header"}
               /\ detailPc' = "threw"
               /\ UNCHANGED <<header, sections, loadingText, loadingDisplay,
                              detailsDisplay>>
          ELSE IF tech.threw
          THEN /\ header' = <<displayItemHeader(it[1], <<>>)>>
               /\ ran' = ran \cup {"header"}
               /\ detailPc' = "threw"
               /\ UNCHANGED <<sections, loadingText, loadingDisplay, detailsDisplay>>
          ELSE /\ header' = <<displayItemHeader(it[1], <<tech>>)>>
               /\ sections' = [howToMake |-> displayRecipesThatMake(sections.howToMake),
                               usedIn |-> displayRecipesThatUse(sections.usedIn),
                               canCraft |-> displayCraftingCapabilities(sections.canCraft)]
               /\ ran' = ran \cup {"header", "howToMake", "usedIn", "canCraft",
                                   "hideLoading"}
               /\ hideLoading
               /\ detailPc' = "done"

\* what the page keeps while it awaits the processor
DetailAwaits ==
    /\ UNCHANGED <<itemId, thisItem, loadingText, loadingDisplay, detailsDisplay, header,
                   sections, ran>>
    /\ UNCHANGED appVars

\* the dataset document fails: the processor returns false
DetailDatasetFails ==
    /\ detailPc = "fetchData"
    /\ loadResult' = "false"
    /\ detailPc' = "resolved"
    /\ UNCHANGED <<data, recipes, items, craftingEntities, recipeLookup, itemLookup,
                   craftingLookup, iconMapping, loads>>
    /\ DetailAwaits

\* the dataset document is parsed and stored; the processor awaits the icons
DetailDatasetArrives(ds) ==
    /\ detailPc = "fetchData"
    /\ data' = <<ds>>
    /\ detailPc' = "fetchIcons"
    /\ UNCHANGED <<recipes, items, craftingEntities, recipeLookup, itemLookup,
                   craftingLookup, iconMapping, loadResult, loads>>
    /\ DetailAwaits

\* the icon mapping fails: the processor returns false
DetailIconsFail ==
    /\ detailPc = "fetchIcons"
    /\ loadResult' = "false"
    /\ detailPc' = "resolved"
    /\ UNCHANGED <<data, recipes, items, craftingEntities, recipeLookup, itemLookup,
                   craftingLookup, iconMapping, loads>>
    /\ DetailAwaits

\* the icon mapping is parsed; processData() runs and the processor returns
DetailIconsArrive(icons) ==
    /\ detailPc = "fetchIcons"
    /\ iconMapping' = icons
    /\ LET p == processData(data[1])
       IN /\ items' = p.items
          /\ itemLookup' = p.itemLookup
          /\ recipes' = p.recipes
          /\ recipeLookup' = p.recipeLookup
          /\ craftingEntities' = p.craftingEntities
          /\ craftingLookup' = p.craftingLookup
          /\ loadResult' = IF p.threw THEN "false" ELSE "true"
    /\ detailPc' = "resolved"
    /\ UNCHANGED <<data, loads>>
    /\ DetailAwaits

\* loadData goes on after its await: loadItemDetails on true, showError on
\* false
DetailResume ==
    /\ detailPc = "resolved"
    /\ IF loadResult = "true"
       THEN loadItemDetails
       ELSE /\ showError("Error loading data")
            /\ detailPc' = "done"
            /\ UNCHANGED <<thisItem, header, sections, ran>>
    /\ UNCHANGED itemId
    /\ UNCHANGED dpVars
    /\ UNCHANGED appVars

----------------------------------------------------------------------------
(* loadData of the data processor, one action per way it can end *)

\* the fetch of the dataset document rejects, or its body is not JSON
LoadDataFetchFails ==
    /\ loads < MaxLoads
    /\ loads' = loads + 1
    /\ loadResult' = "false"
    /\ UNCHANGED <<data, recipes, items, craftingEntities, recipeLookup, itemLookup,
                   craftingLookup, iconMapping>>

\* the dataset was parsed and stored; the icon mapping fails
LoadDataIconsFail(ds) ==
    /\ loads < MaxLoads
    /\ loads' = loads + 1
    /\ data' = <<ds>>
    /\ loadResult' = "false"
    /\ UNCHANGED <<recipes, items, craftingEntities, recipeLookup, itemLookup,
                   craftingLookup, iconMapping>>

\* both documents were parsed; processData runs (and may throw)
LoadDataProcess(ds, icons) ==
    /\ loads < MaxLoads
    /\ loads' = loads + 1
    /\ data' = <<ds>>
    /\ iconMapping' = icons
    /\ LET p == processData(ds)
       IN /\ items' = p.items
          /\ itemLookup' = p.itemLookup
          /\ recipes' = p.recipes
          /\ recipeLookup' = p.recipeLookup
          /\ craftingEntities' = p.craftingEntities
          /\ craftingLookup' = p.craftingLookup
          /\ loadResult' = IF p.threw THEN "false" ELSE "true"

\* constructor()
InitProcessor ==
    /\ data = <<>>
    /\ recipes = <<>>
    /\ items = <<>>
    /\ craftingEntities = <<>>
    /\ recipeLookup = EmptyMap
    /\ itemLookup = EmptyMap
    /\ craftingLookup = EmptyMap
    /\ iconMapping = EmptyMap
    /\ loadResult = "none"
    /\ loads = 0

----------------------------------------------------------------------------
(* Documents the loads draw from *)

IdA == <<"a">>
IdB == <<"b">>
NameX == <<"X">>
R1 == <<"r","1">>
R2 == <<"r","2">>
M1 == <<"m","1">>
F1 == <<"f","1">>
T1 == <<"t","1">>
T2 == <<"t","2">>
WidgetForging == <<"w","i","d","g","e","t","-","f","o","r","g","i","n","g">>

ItemIds == {IdA, IdB}

Icons == (IdA :> "a.png")

IR(n, c) == [name |-> n, cleaned_name |-> c]
RR(n, cat, ing, res) ==
    [name |-> n, cleaned_name |-> Undef, category |-> cat, ingredients |-> ing, results |-> res]
ER(n, cats) == [name |-> n, cleaned_name |-> Undef, crafting_categories |-> cats]
TR(n, eff) == [name |-> n, cleaned_name |-> Undef, effects |-> eff]
Stack(n) == [name |-> n]
Effect(t, r) == [type |-> t, recipe |-> r]

\* recipes that differ in category, against every arrangement of two machines
CraftRecipes ==
    {AbsentB, Wrapped(<<RR(R1, Smelting, AbsentB, Arr(<<Stack(IdA)>>))>>)}
      \cup {Arr(<<RR(R1, cat, Arr(<<Stack(IdB)>>), Arr(<<Stack(IdA)>>))>>) :
                cat \in {Undef, Smelting, WidgetForging, Crafting, Chemistry,
                         OilProcessing, RocketBuilding}}

CraftAssemblers ==
    {AbsentB,
     Arr(<<ER(M1, Arr(<<WidgetForging, Smelting>>))>>),
     Arr(<<ER(M1, Wrapped(<<WidgetForging>>))>>)}

CraftFurnaces ==
    {AbsentB,
     Arr(<<ER(F1, Arr(<<Smelting>>))>>),
     Arr(<<ER(F1, AbsentB)>>),
     Wrapped(<<ER(F1, Arr(<<Smelting>>))>>)}

CraftData ==
    {MkData(("recipe" :> r) @@ ("assembling-machine" :> m) @@ ("furnace" :> f)
            @@ ("item" :> Arr(<<IR(IdA, Undef)>>))) :
        r \in CraftRecipes, m \in CraftAssemblers, f \in CraftFurnaces}

\* item buckets: every record alone, two records, and a wrapper
ItemRecs == {IR(IdA, Undef), IR(IdA, NameX), IR(IdB, NameX), IR(IdB, <<>>)}

ItemBuckets ==
    {AbsentB, Arr(<<IR(IdA, Undef), IR(IdB, NameX)>>), Wrapped(<<IR(IdA, Undef)>>)}
      \cup {Arr(<<r>>) : r \in ItemRecs}

ItemData ==
    {MkData(("item" :> i) @@ ("fluid" :> f)) : i \in ItemBuckets, f \in ItemBuckets}

\* recipes that differ in the shape and content of ingredients and results
StackLists ==
    {Arr(<<Stack(IdA)>>), Wrapped(<<Stack(IdB), Stack(IdA)>>), OtherObj}

RecipeLists ==
    {<<RR(R1, Smelting, i, r)>> : i \in StackLists, r \in StackLists}
      \cup {<<RR(R1, Smelting, i, r), RR(R2, Smelting, r2, r2)>> :
                i \in StackLists, r \in StackLists, r2 \in StackLists}

RecipeData ==
    {MkData("recipe" :> b) : b \in {AbsentB} \cup {Arr(l) : l \in RecipeLists}}

\* technologies that differ in their effects, against recipes that come and go
EffectLists ==
    {AbsentB,
     Arr(<<Effect("unlock-recipe", R1)>>),
     Arr(<<Effect("nothing", R1)>>),
     Wrapped(<<Effect("nothing", R2), Effect("unlock-recipe", R2)>>)}

TechLists ==
    {<<TR(T1, e)>> : e \in EffectLists}
      \cup {<<TR(T1, e), TR(T2, e2)>> :
                e \in EffectLists, e2 \in {Arr(<<Effect("unlock-recipe", R1)>>), AbsentB}}

TechRecipes ==
    {AbsentB,
     Arr(<<RR(R1, Smelting, AbsentB, Arr(<<Stack(IdA)>>))>>),
     Arr(<<RR(R1, Smelting, AbsentB, Arr(<<Stack(IdB)>>)),
           RR(R2, Smelting, AbsentB, Wrapped(<<Stack(IdA)>>))>>)}

TechData ==
    {MkData(("technology" :> t) @@ ("recipe" :> r)) :
        t \in {AbsentB, Wrapped(<<TR(T1, Arr(<<Effect("unlock-recipe", R1)>>))>>)}
                 \cup {Arr(l) : l \in TechLists},
        r \in TechRecipes}

\* an item, possibly a machine, with the recipes, furnace and technology
\* that mention it
DetailItems ==
    {AbsentB,
     Arr(<<IR(IdA, NameX)>>),
     Arr(<<IR(IdA, Undef), IR(F1, Undef)>>),
     Wrapped(<<IR(IdA, Undef)>>)}

DetailFurnaces == {AbsentB, Arr(<<ER(F1, Arr(<<Smelting>>))>>)}

DetailTechs ==
    {AbsentB,
     Arr(<<TR(T1, Arr(<<Effect("unlock-recipe", R1)>>))>>),
     Wrapped(<<TR(T1, Arr(<<Effect("unlock-recipe", R1)>>))>>)}

DetailData ==
    {MkData(("item" :> i) @@ ("recipe" :> r) @@ ("furnace" :> f) @@ ("technology" :> t)) :
        i \in DetailItems, r \in TechRecipes, f \in DetailFurnaces, t \in DetailTechs}

----------------------------------------------------------------------------
(* The data processor, loaded up to MaxLoads times *)

LoadData(ds) ==
    /\ \/ LoadDataFetchFails
       \/ LoadDataIconsFail(ds)
       \/ LoadDataProcess(ds, Icons)
    /\ UNCHANGED appVars
    /\ UNCHANGED detailVars

Init == InitProcessor /\ InitNoApp /\ InitNoDetail

Next == \E ds \in CraftData : LoadData(ds)

Spec == Init /\ [][Next]_vars

NextItems == \E ds \in ItemData : LoadData(ds)

ItemSpec == Init /\ [][NextItems]_vars

NextRecipes == \E ds \in RecipeData : LoadData(ds)

RecipeSpec == Init /\ [][NextRecipes]_vars

NextTech == \E ds \in TechData : LoadData(ds)

TechSpec == Init /\ [][NextTech]_vars

----------------------------------------------------------------------------
(* The list page: one load in flight, and the user at the controls *)

IconMaps == {EmptyMap, Icons}

PageInit ==
    /\ InitApp
    /\ InitNoDetail
    /\ data = <<>>
    /\ recipes = <<>>
    /\ items = <<>>
    /\ craftingEntities = <<>>
    /\ recipeLookup = EmptyMap
    /\ itemLookup = EmptyMap
    /\ craftingLookup = EmptyMap
    /\ iconMapping = EmptyMap
    /\ loadResult = "none"
    /\ loads = 1

PageNext ==
    \/ AppDatasetFails
    \/ \E ds \in ItemData : AppDatasetArrives(ds)
    \/ AppIconsFail
    \/ \E icons \in IconMaps : AppIconsArrive(icons)
    \/ \E value \in Queries : handleSearch(value)
    \/ \E value \in typeOptions : handleFilterChange(value)
    \/ \E value \in Sorts : handleSortChange(value)

PageSpec == PageInit /\ [][PageNext]_vars

----------------------------------------------------------------------------
(* The details page: one load in flight, no control on the page *)

DetailIds == {<<>>, <<<<>>>>, <<IdA>>, <<IdB>>, <<F1>>}

DetailInit ==
    /\ \E idParam \in DetailIds :
          /\ InitDetail(idParam)
          /\ loads = IF NoItemId(idParam) THEN 0 ELSE 1
    /\ InitNoApp
    /\ data = <<>>
    /\ recipes = <<>>
    /\ items = <<>>
    /\ craftingEntities = <<>>
    /\ recipeLookup = EmptyMap
    /\ itemLookup = EmptyMap
    /\ craftingLookup = EmptyMap
    /\ iconMapping = EmptyMap
    /\ loadResult = "none"

DetailNext ==
    \/ DetailDatasetFails
    \/ \E ds \in DetailData : DetailDatasetArrives(ds)
    \/ DetailIconsFail
    \/ \E icons \in IconMaps : DetailIconsArrive(icons)
    \/ DetailResume

DetailSpec == DetailInit /\ [][DetailNext]_vars

----------------------------------------------------------------------------
(* Properties of the data processor *)

Loaded == loadResult = "true"

\* the records of a bucket of the latest dataset, whatever its shape
Bucket(key) == IF data = <<>> THEN AbsentB ELSE data[1][key]

Min(S) == CHOOSE i \in S : \A j \in S : i <= j

\* the elements of s at the indexes of idx, in the order of s
Pick(s, idx) ==
    [n \in 1..Cardinality(idx) |->
        s[CHOOSE i \in idx : Cardinality({j \in idx : j <= i}) = n]]

RefOf(entity) == [name |-> entity.displayName, id |-> entity.id, type |-> entity.type]

\* C1: after a successful load, every recipe with a category references the
\* first crafting entity (declaration order) of the loaded dataset whose
\* categories contain the category, and a "category" placeholder only when
\* the dataset has no such entity.
C1_CraftingEntityResolved ==
    Loaded =>
        \A k \in DOMAIN recipes :
            Truthy(recipes[k].category) =>
                LET matches == {i \in DOMAIN craftingEntities :
                                   SeqIncludes(craftingEntities[i].categories,
                                               recipes[k].category)}
                IN /\ recipes[k].craftingEntity # <<>>
                   /\ IF matches # {}
                      THEN recipes[k].craftingEntity[1] = RefOf(craftingEntities[Min(matches)])
                      ELSE recipes[k].craftingEntity[1].type = "category"

\* C3: whenever loadData() returned false, the processor is as freshly
\* constructed: no dataset, empty collections, empty lookups.
C3_FailedLoadLeavesUnloaded ==
    loadResult = "false" =>
        /\ data = <<>>
        /\ items = <<>> /\ recipes = <<>> /\ craftingEntities = <<>>
        /\ DOMAIN itemLookup = {} /\ DOMAIN recipeLookup = {} /\ DOMAIN craftingLookup = {}

\* C4: after a successful load, the lookups, the recipe collection and the
\* resolved crafting entities hold exactly the records of the latest dataset.
C4_RebuiltWholesale ==
    Loaded =>
        /\ DOMAIN itemLookup = {items[i].id : i \in DOMAIN items}
        /\ DOMAIN craftingLookup = {craftingEntities[i].id : i \in DOMAIN craftingEntities}
        /\ DOMAIN recipeLookup = {Bucket("recipe").recs[i].name : i \in DOMAIN Bucket("recipe").recs}
        /\ Len(recipes) = Len(Bucket("recipe").recs)
        /\ \A k \in DOMAIN recipes :
              /\ k \in DOMAIN Bucket("recipe").recs
              /\ recipes[k].name = Bucket("recipe").recs[k].name
              /\ recipes[k].craftingEntity # <<>> /\ recipes[k].craftingEntity[1].type # "category"
                    => \E i \in DOMAIN craftingEntities :
                           craftingEntities[i].id = recipes[k].craftingEntity[1].id

\* C6: after a successful load, the flat item collection holds at most one
\* record per id, and that record is the one getItem returns.
C6_OneRecordPerId ==
    Loaded =>
        \A i, j \in DOMAIN items :
            /\ items[i].id = items[j].id => i = j
            /\ getItem(items[i].id) = <<items[i]>>

\* the item records of the latest dataset, as <<bucket number, position>>
ItemPlaces ==
    UNION {{<<t, k>> : k \in DOMAIN Bucket(ItemTypes[t]).recs} :
              t \in {u \in DOMAIN ItemTypes : Bucket(ItemTypes[u]).shape = "array"}}

ItemAt(p) == Bucket(ItemTypes[p[1]]).recs[p[2]]

\* no record written after p carries p's id
LastWriter(p) ==
    \A q \in ItemPlaces :
        ItemAt(q).name = ItemAt(p).name =>
            (q[1] < p[1] \/ (q[1] = p[1] /\ q[2] <= p[2]))

\* C7 as stated: getItem(i.id).displayName is i.cleaned_name when i has one,
\* else i.id, for every item record i of the loaded dataset.
C7_DisplayNameOfEveryRecord ==
    Loaded =>
        \A p \in ItemPlaces :
            /\ getItem(ItemAt(p).name) # <<>>
            /\ getItem(ItemAt(p).name)[1].displayName =
                  IF ItemAt(p).cleaned_name # Undef THEN ItemAt(p).cleaned_name
                  ELSE ItemAt(p).name

\* C7 (amended): for every item record i of the loaded dataset that is the
\* last record carrying its id, getItem(i.id) is a record of i's bucket type
\* whose displayName is i.cleaned_name when that is a non-empty string, and
\* the raw id otherwise.
C7_DisplayNameOfLastWriter ==
    Loaded =>
        \A p \in ItemPlaces :
            LastWriter(p) =>
                /\ getItem(ItemAt(p).name) # <<>>
                /\ getItem(ItemAt(p).name)[1].type = ItemTypes[p[1]]
                /\ getItem(ItemAt(p).name)[1].displayName =
                      IF ItemAt(p).cleaned_name \notin {Undef, <<>>}
                      THEN ItemAt(p).cleaned_name
                      ELSE ItemAt(p).name

\* after a reload, an id carried by two buckets shows the cleaned name of the
\* later record, not the name of the earlier one
C7_Witness ==
    /\ Loaded /\ loads = 2
    /\ \E p, q \in ItemPlaces :
          /\ q[1] < p[1] /\ ItemAt(q).name = ItemAt(p).name
          /\ LastWriter(p)
          /\ ItemAt(p).cleaned_name = NameX /\ ItemAt(q).cleaned_name = Undef
          /\ getItem(ItemAt(p).name)[1].displayName = NameX

QueryIds == ItemIds \cup {<<"z">>}

\* C8: getRecipesThatMake(x) lists exactly the recipes with a result named
\* x, getRecipesThatUse(x) exactly those with an ingredient named x, each
\* once and in declaration order; after a successful load of a recipe array
\* these are the dataset's records whose results (ingredients), in either
\* accepted shape, name x.
C8_MakeAndUse ==
    \A x \in QueryIds :
        /\ getRecipesThatMake(x) =
              Pick(recipes, {k \in DOMAIN recipes :
                                x \in {recipes[k].results[i].name : i \in DOMAIN recipes[k].results}})
        /\ getRecipesThatUse(x) =
              Pick(recipes, {k \in DOMAIN recipes :
                                x \in {recipes[k].ingredients[i].name :
                                          i \in DOMAIN recipes[k].ingredients}})
        /\ (Loaded /\ Bucket("recipe").shape = "array") =>
              LET raw == Bucket("recipe").recs
                  Makes(k) == /\ raw[k].results.shape \in {"array", "wrapped"}
                              /\ \E i \in DOMAIN raw[k].results.recs :
                                    raw[k].results.recs[i].name = x
                  Uses(k) == /\ raw[k].ingredients.shape \in {"array", "wrapped"}
                             /\ \E i \in DOMAIN raw[k].ingredients.recs :
                                   raw[k].ingredients.recs[i].name = x
                  made == getRecipesThatMake(x)
                  used == getRecipesThatUse(x)
              IN /\ [n \in DOMAIN made |-> made[n].name]
                      = Pick([k \in DOMAIN raw |-> raw[k].name], {k \in DOMAIN raw : Makes(k)})
                 /\ [n \in DOMAIN used |-> used[n].name]
                      = Pick([k \in DOMAIN raw |-> raw[k].name], {k \in DOMAIN raw : Uses(k)})

\* two recipes make a (the second through a wrapped list), one of them uses
\* b, and nothing makes z
C8_Witness ==
    /\ Loaded
    /\ Len(recipes) = 2
    /\ Len(getRecipesThatMake(IdA)) = 2
    /\ getRecipesThatMake(IdA)[1].name = R1 /\ getRecipesThatMake(IdA)[2].name = R2
    /\ Len(getRecipesThatMake(IdB)) = 1
    /\ Len(getRecipesThatUse(IdB)) = 1
    /\ getRecipesThatMake(<<"z">>) = <<>>

EntityIds == {M1, F1}

\* C9: getRecipesCraftableBy(e) is exactly the loaded recipes whose category
\* is among e's categories, and empty when e is no crafting entity of the
\* loaded dataset.
C9_CraftableBy ==
    Loaded =>
        \A e \in EntityIds :
            LET mine == {i \in DOMAIN craftingEntities : craftingEntities[i].id = e}
            IN IF mine = {}
               THEN getRecipesCraftableBy(e) = <<>>
               ELSE \E i \in mine :
                       getRecipesCraftableBy(e) =
                          Pick(recipes, {k \in DOMAIN recipes :
                                            SeqIncludes(craftingEntities[i].categories,
                                                        recipes[k].category)})

\* the recipe record named n of the latest dataset (the last so named)
DatasetRecipe(n) ==
    LET b == Bucket("recipe")
        hits == IF b.shape = "array" THEN {k \in DOMAIN b.recs : b.recs[k].name = n} ELSE {}
    IN IF hits = {} THEN <<>> ELSE <<b.recs[CHOOSE k \in hits : \A j \in hits : j <= k]>>

\* C10: getTechnologyThatUnlocks(x) is the first technology with an
\* unlock-recipe effect whose recipe exists in the loaded dataset and has a
\* result named x, and absent when there is none.
C10_FirstUnlockingTechnology ==
    (Loaded /\ Bucket("technology").shape = "array") =>
        \A x \in QueryIds :
            LET techs == Bucket("technology").recs
                Unlocks(t) ==
                    /\ techs[t].effects.shape \in {"array", "wrapped"}
                    /\ \E i \in DOMAIN techs[t].effects.recs :
                          LET eff == techs[t].effects.recs[i]
                          IN /\ eff.type = "unlock-recipe"
                             /\ DatasetRecipe(eff.recipe) # <<>>
                             /\ HasName(extractItems(DatasetRecipe(eff.recipe)[1].results), x)
                hits == {t \in DOMAIN techs : Unlocks(t)}
                got == getTechnologyThatUnlocks(x)
            IN /\ ~got.threw
               /\ got.value = IF hits = {} THEN <<>> ELSE <<techs[Min(hits)]>>

----------------------------------------------------------------------------
(* Properties of the list page *)

\* C2: the list page queries the processor only after its load has
\* succeeded: never while the load is pending, never after it failed.
C2_QueriesGatedBehindLoad == queryLog \subseteq {"loaded"}

\* C5: once loaded, a render with the UI state of the first render shows the
\* cards of the first render, in the same order.
C5_RenderDeterminedByUiState ==
    (appPc = "loaded" /\ firstRender # <<>>
        /\ firstRender[1].query = currentQuery
        /\ firstRender[1].typeFilter = currentTypeFilter
        /\ firstRender[1].sort = currentSort)
    => Cards(currentItems, iconMapping) = firstRender[1].cards

----------------------------------------------------------------------------
(* Properties of searchItems *)

SearchQueries == Queries \cup {<<"X">>, <<"A">>, <<"z">>}

SearchFilters == {"", "item", "fluid", "science"}

SameLetter(c, d) == toLowerCase(c) = toLowerCase(d)

\* sub occurs in s at some offset, letters compared without regard to case
ContainsIgnoringCase(s, sub) ==
    \E k \in 0..(Len(s) - Len(sub)) :
        \A j \in 1..Len(sub) : SameLetter(s[k + j], sub[j])

\* C11: searchItems(query, typeFilter) is exactly the items whose type is
\* typeFilter (any type when it is empty) and whose id or displayName
\* contains query without regard to case (any item when it is empty);
\* searchItems('', '') has the members of the full item collection.
C11_SearchItems ==
    /\ \A q \in SearchQueries, f \in SearchFilters :
          searchItems(q, f) =
             Pick(items, {i \in DOMAIN items :
                             /\ f = "" \/ items[i].type = f
                             /\ \/ q = <<>>
                                \/ ContainsIgnoringCase(items[i].id, q)
                                \/ ContainsIgnoringCase(items[i].displayName, q)})
    /\ {searchItems(<<>>, "")[i] : i \in DOMAIN searchItems(<<>>, "")}
          = {getAllItems[i] : i \in DOMAIN getAllItems}

\* a fluid named X is found by the query x among two items, the item of
\* another type and the query z are not
C11_Witness ==
    /\ Loaded
    /\ Len(items) = 2
    /\ Len(searchItems(<<"x">>, "fluid")) = 1
    /\ searchItems(<<"x">>, "fluid")[1].displayName = NameX
    /\ searchItems(<<"x">>, "item") = <<>>
    /\ searchItems(<<"z">>, "") = <<>>
    /\ Len(searchItems(<<"A">>, "")) = 1

----------------------------------------------------------------------------
(* Properties of the accepted bucket shapes *)

\* the bucket with its records given as a plain array
Unwrap(bucket) == IF bucket.shape = "wrapped" THEN Arr(bucket.recs) ELSE bucket

\* the dataset with every wrapper bucket given as a plain array
PlainData(d) == [k \in Keys |-> Unwrap(d[k])]

\* the processor has been loaded once, and both documents were parsed
FirstLoadProcessed == loads = 1 /\ data # <<>> /\ iconMapping = Icons

\* C12: a first load whose documents parse succeeds whatever the shape of
\* the buckets, and leaves the items, recipes, crafting entities and
\* technology answers that the same records given as plain arrays leave.
C12_WrappedBucketsAccepted ==
    FirstLoadProcessed =>
        LET plain == PlainData(data[1])
        IN /\ loadResult = "true"
           /\ items = FlattenItems(plain, 1, <<>>, EmptyMap).items
           /\ recipes = ProcessRecipes(plain, <<>>, EmptyMap, <<>>).recipes
           /\ craftingEntities = FlattenEntities(plain, 1, <<>>, EmptyMap).craftingEntities
           /\ \A x \in QueryIds : ~getTechnologyThatUnlocks(x).threw

----------------------------------------------------------------------------
(* Properties of the placeholder crafting entity *)

\* the name the claim gives the placeholder of a category
PlaceholderName(category) ==
    IF category = Crafting
    THEN <<"A","s","s","e","m","b","l","i","n","g"," ","M","a","c","h","i","n","e">>
    ELSE IF category = Smelting THEN <<"F","u","r","n","a","c","e">>
    ELSE IF category = Chemistry
    THEN <<"C","h","e","m","i","c","a","l"," ","P","l","a","n","t">>
    ELSE IF category = OilProcessing
    THEN <<"O","i","l"," ","R","e","f","i","n","e","r","y">>
    ELSE IF category = RocketBuilding
    THEN <<"R","o","c","k","e","t"," ","S","i","l","o">>
    ELSE IF category = WidgetForging
    THEN <<"W","i","d","g","e","t"," ","F","o","r","g","i","n","g">>
    ELSE <<>>

\* C13: after a successful load, a recipe whose category no crafting entity
\* of the loaded dataset has is resolved to {id: category, type: "category",
\* name: N}, N being the static table entry or the title-cased category.
C13_PlaceholderForUnmatchedCategory ==
    Loaded =>
        \A k \in DOMAIN recipes :
            (/\ Truthy(recipes[k].category)
             /\ Bucket("recipe").shape = "array"
             /\ \A i \in DOMAIN craftingEntities :
                    ~SeqIncludes(craftingEntities[i].categories, recipes[k].category))
            => recipes[k].craftingEntity =
                  <<[id |-> recipes[k].category, type |-> "category",
                     name |-> PlaceholderName(recipes[k].category)]>>

----------------------------------------------------------------------------
(* Properties of the details page *)

\* C14: on the details page, once the load has succeeded and the requested id
\* is not in the item index, no step of the render is ever entered (header,
\* how-to-make, used-in, can-craft, hideLoading), the details container is
\* never shown, and when loadData has returned the page shows "Item not
\* found" with the container hidden, for good.
C14_NotFoundIsTerminal ==
    (/\ detailPc # "none"
     /\ ~NoItemId(itemId)
     /\ loadResult = "true"
     /\ getItem(itemId[1]) = <<>>)
    => /\ ran = {}
       /\ header = <<>>
       /\ sections = NoSections
       /\ detailsDisplay # "block"
       /\ loadingDisplay = "initial"
       /\ detailPc \in {"resolved", "done"}
       /\ detailPc = "done" => /\ loadingText = "Item not found"
                               /\ detailsDisplay = "none"
                               /\ thisItem = <<>>

C14_Witness ==
    /\ detailPc = "done"
    /\ loadResult = "true"
    /\ itemId = <<IdB>>
    /\ Len(items) = 2
    /\ getItem(IdB) = <<>>
    /\ getRecipesThatMake(IdB) # <<>>
    /\ loadingText = "Item not found"
    /\ detailsDisplay = "none"

----------------------------------------------------------------------------
(* Properties of the index behind the list page *)

\* C15: once the load has succeeded, no list-mode event (search text, type
\* filter, sort) and no query it makes changes the item collection returned
\* by getAllItems (membership and order), the recipe collection or the
\* crafting-entity collection.
C15_IndexReadOnlyAfterLoad ==
    [][appPc = "loaded" => UNCHANGED <<items, recipes, craftingEntities>>]_vars

====
